---- MODULE Spec2Model ----
(***************************************************************************)
(* Model of the chainlit chatbot: my_secrets.py (startup configuration)    *)
(* and chatbot.py (two tools, session start / message / end handlers).     *)
(* Text is modelled by TLA+ strings, f-strings and += by \o.               *)
(***************************************************************************)
EXTENDS Integers, Sequences, FiniteSets, TLC

VARIABLES
    env,              \* process environment after load_dotenv()
    phase,            \* "boot" | "running" | "exited"
    exit_status,      \* argument of exit(), -1 while the process lives
    diagnostic,       \* name of the variable the printed diagnostic reports, "" if none
    secrets,          \* <<>> until Secrets() is built, then <<the Secrets object>>
    session,          \* "none" | "active" | "ended"
    user_session,     \* cl.user_session of the current session
    file,             \* content of chat_history.json, a sequence of JSON tokens
    pc,               \* position of the on_message callback
    message,          \* message.content of the turn in progress
    chat_history,     \* the local list chat_history of main()
    aliased,          \* TRUE iff the local list is the very list object stored in the session
    response_message, \* the local response_message of main()
    first_response,   \* the local first_response of main()
    ui,               \* what the turn has put on screen and not removed
    turn_H,           \* stored history when the turn began
    emitted,          \* text deltas the backend emitted in this turn, in order
    transitions,      \* completed "remove placeholder, send live message" transitions in this turn
    outcome,          \* "none" | "running" | "ok" | "caught" | "escaped"
    turns,            \* messages handled so far
    sessions,         \* sessions started so far
    events,           \* stream events consumed so far
    student_calls,    \* observed (id, result) pairs of get_student_info
    weather_call,     \* observation of the last get_current_weather invocation
    requests_made     \* outbound weather requests made so far

vars == <<env, phase, exit_status, diagnostic, secrets, session, user_session,
          file, pc, message, chat_history, aliased, response_message,
          first_response, ui, turn_H, emitted, transitions, outcome, turns,
          sessions, events, student_calls, weather_call, requests_made>>

bootVars == <<env, phase, exit_status, diagnostic, secrets>>
turnVars == <<pc, message, chat_history, aliased, response_message,
              first_response, ui, turn_H, emitted, transitions, outcome,
              turns, events>>
toolVars == <<student_calls, weather_call, requests_made>>

(***************************************************************************)
(* Bounds                                                                  *)
(***************************************************************************)
MaxTurns == 3
MaxSessions == 2
MaxEvents == 2
MaxStudentId == 6
MaxRequests == 4

UserMessages == {"hi", "bye"}
Deltas == {"a", "b"}
Locations == {"London", "Paris", ""}

(***************************************************************************)
(* my_secrets.py                                                           *)
(***************************************************************************)
None == "<None>"

EnvNames == {"GEMINI_API_KEY", "GEMINI_API_URL", "GEMINI_API_MODEL",
             "WEATHER_API_URL", "WEATHER_API_KEY"}

\* os.getenv(name)
getenv(e, name) == e[name]

\* Python truthiness of an Optional[str]: None and "" are falsy
Falsy(v) == v = None \/ v = ""

\* variant: the two weather checks are made in the other order
FirstUnsetWeatherKeyFirst(e) ==
    IF Falsy(getenv(e, "GEMINI_API_KEY")) THEN "GEMINI_API_KEY"
    ELSE IF Falsy(getenv(e, "GEMINI_API_URL")) THEN "GEMINI_API_URL"
    ELSE IF Falsy(getenv(e, "GEMINI_API_MODEL")) THEN "GEMINI_API_MODEL"
    ELSE IF Falsy(getenv(e, "WEATHER_API_KEY")) THEN "WEATHER_API_KEY"
    ELSE IF Falsy(getenv(e, "WEATHER_API_URL")) THEN "WEATHER_API_URL"
    ELSE ""

\* the chain of "if not x: print(...); exit(1)" blocks: the name reported by
\* the first block that fires, "" when none does
FirstUnset(e) ==
    IF Falsy(getenv(e, "GEMINI_API_KEY")) THEN "GEMINI_API_KEY"
    ELSE IF Falsy(getenv(e, "GEMINI_API_URL")) THEN "GEMINI_API_URL"
    ELSE IF Falsy(getenv(e, "GEMINI_API_MODEL")) THEN "GEMINI_API_MODEL"
    ELSE IF Falsy(getenv(e, "WEATHER_API_URL")) THEN "WEATHER_API_URL"
    ELSE IF Falsy(getenv(e, "WEATHER_API_KEY")) THEN "WEATHER_API_KEY"
    ELSE ""

\* Secrets.__init__
Secrets(e) ==
    [gemini_api_key   |-> getenv(e, "GEMINI_API_KEY"),
     gemini_api_url   |-> getenv(e, "GEMINI_API_URL"),
     gemini_api_model |-> getenv(e, "GEMINI_API_MODEL"),
     weather_api_key  |-> getenv(e, "WEATHER_API_KEY"),
     weather_api_url  |-> getenv(e, "WEATHER_API_URL")]

\* import of my_secrets followed by "secrets = Secrets()" in chatbot.py
LoadSecrets ==
    /\ phase = "boot"
    /\ IF FirstUnset(env) # ""
         THEN /\ diagnostic' = FirstUnset(env)
              /\ exit_status' = 1
              /\ phase' = "exited"
              /\ secrets' = secrets
         ELSE /\ diagnostic' = diagnostic
              /\ exit_status' = exit_status
              /\ phase' = "running"
              /\ secrets' = <<Secrets(env)>>
    /\ UNCHANGED <<env, session, user_session, file, sessions>>
    /\ UNCHANGED turnVars
    /\ UNCHANGED toolVars

(***************************************************************************)
(* chat_history.json                                                       *)
(***************************************************************************)
Tok(t, v) == [t |-> t, v |-> v]
Punct(c) == Tok(c, "")
Str(s) == Tok("str", s)

\* one {role, content} dict as json.dump writes it
DumpObject(m) ==
    <<Punct("{"), Str("role"), Punct(":"), Str(m.role), Punct(","),
      Str("content"), Punct(":"), Str(m.content), Punct("}")>>

RECURSIVE DumpItems(_)
DumpItems(h) ==
    IF Len(h) = 0 THEN <<>>
    ELSE IF Len(h) = 1 THEN DumpObject(h[1])
    ELSE DumpObject(h[1]) \o <<Punct(",")>> \o DumpItems(Tail(h))

\* json.dump(chat_history, f, indent=4); indentation is whitespace between
\* tokens and is not represented
json_dump(h) == <<Punct("[")>> \o DumpItems(h) \o <<Punct("]")>>

\* variant: the file is opened for appending
open_a(f) == f

\* open("chat_history.json", "w"): the content the writes start from
open_w(f) == <<>>

(***************************************************************************)
(* Session handlers                                                        *)
(***************************************************************************)
ThinkingText == "Thinking..."
ErrorText == "An error occurred while processing your request. Please try again."

Entry(r, c) == [role |-> r, content |-> c]

\* cl.user_session.get("chat_history") or []
StoredOrEmpty(us) == us.chat_history

\* variant: the token is put in front of the content
stream_token_front(content, delta) == delta \o content

\* response_message.stream_token(delta): content += delta
stream_token(content, delta) == content \o delta

\* @cl.on_chat_start
Start ==
    /\ phase = "running"
    /\ session \in {"none", "ended"}
    /\ pc = "idle"
    /\ sessions < MaxSessions
    /\ session' = "active"
    /\ user_session' = [agent |-> "Chatbot", chat_history |-> <<>>]
    /\ sessions' = sessions + 1
    /\ outcome' = "none"      \* no turn of the new session has run yet
    /\ UNCHANGED bootVars
    /\ UNCHANGED toolVars
    /\ UNCHANGED <<file, pc, message, chat_history, aliased, response_message,
                   first_response, ui, turn_H, emitted, transitions, turns, events>>

\* the except block, entered with response_message and ui as they are at the raise
ExceptBlock(rm, u) ==
    /\ IF rm.bound
         THEN /\ response_message' = [rm EXCEPT !.content = ErrorText]
              /\ ui' = [u EXCEPT !.response = <<ErrorText>>]
              /\ outcome' = "caught"
         ELSE \* UnboundLocalError raised inside the handler
              /\ response_message' = rm
              /\ ui' = u
              /\ outcome' = "escaped"
    /\ pc' = "idle"

\* @cl.on_message, up to the try statement
OnMessage(m) ==
    /\ phase = "running"
    /\ session = "active"
    /\ pc = "idle"
    /\ turns < MaxTurns
    /\ turns' = turns + 1
    /\ message' = m
    /\ turn_H' = user_session.chat_history
    /\ ui' = [thinking |-> TRUE, response |-> <<>>]
    /\ LET stored == StoredOrEmpty(user_session)
           same == stored # <<>>     \* "x or []" keeps x only when x is non-empty
       IN  /\ aliased' = same
           /\ chat_history' = Append(stored, Entry("user", m))
           /\ user_session' = IF same
                                THEN [user_session EXCEPT !.chat_history = Append(stored, Entry("user", m))]
                                ELSE user_session
    /\ response_message' = [bound |-> FALSE, content |-> "", sent |-> FALSE]
    /\ first_response' = TRUE
    /\ emitted' = <<>>
    /\ transitions' = 0
    /\ events' = events
    /\ outcome' = "running"
    /\ pc' = "run"
    /\ UNCHANGED bootVars
    /\ UNCHANGED toolVars
    /\ UNCHANGED <<session, file, sessions>>

\* Runner.run_streamed(...) and the creation of response_message
RunStreamed(raises) ==
    /\ pc = "run"
    /\ IF raises
         THEN /\ ExceptBlock(response_message, ui)
              /\ first_response' = first_response
         ELSE /\ response_message' = [bound |-> TRUE, content |-> "", sent |-> FALSE]
              /\ first_response' = TRUE
              /\ pc' = "stream"
              /\ UNCHANGED <<ui, outcome>>
    /\ UNCHANGED bootVars
    /\ UNCHANGED toolVars
    /\ UNCHANGED <<session, user_session, file, sessions, message, chat_history,
                   aliased, turn_H, emitted, transitions, turns, events>>

\* one iteration of the loop whose chunk is not a text delta
OtherEvent ==
    /\ pc = "stream"
    /\ events < MaxEvents
    /\ events' = events + 1
    /\ UNCHANGED bootVars
    /\ UNCHANGED toolVars
    /\ UNCHANGED <<session, user_session, file, sessions, pc, message,
                   chat_history, aliased, response_message, first_response,
                   ui, turn_H, emitted, transitions, outcome, turns>>

\* one iteration of the loop whose chunk is a text delta; fails names the
\* awaited call that raises, "none" when none does
TextDelta(d, fails) ==
    /\ pc = "stream"
    /\ events < MaxEvents
    /\ events' = events + 1
    /\ emitted' = Append(emitted, d)
    /\ fails \in (IF first_response THEN {"none", "remove", "send", "stream_token"}
                                      ELSE {"none", "stream_token"})
    /\ LET removed == [ui EXCEPT !.thinking = FALSE]
           rmSent == [response_message EXCEPT !.sent = TRUE]
           uiSent == [removed EXCEPT !.response = <<response_message.content>>]
           rm1 == IF first_response THEN rmSent ELSE response_message
           ui1 == IF first_response THEN uiSent ELSE ui
           tr1 == IF first_response THEN transitions + 1 ELSE transitions
       IN  CASE fails = "remove" ->
                  /\ ExceptBlock(response_message, ui)
                  /\ UNCHANGED <<first_response, transitions>>
             [] fails = "send" ->
                  /\ ExceptBlock(response_message, removed)
                  /\ UNCHANGED <<first_response, transitions>>
             [] fails = "stream_token" ->
                  /\ ExceptBlock(rm1, ui1)
                  /\ first_response' = FALSE
                  /\ transitions' = tr1
             [] OTHER ->
                  /\ response_message' =
                        [rm1 EXCEPT !.content = stream_token(rm1.content, d)]
                  /\ ui' = [ui1 EXCEPT !.response = <<stream_token(rm1.content, d)>>]
                  /\ first_response' = FALSE
                  /\ transitions' = tr1
                  /\ UNCHANGED <<pc, outcome>>
    /\ UNCHANGED bootVars
    /\ UNCHANGED toolVars
    /\ UNCHANGED <<session, user_session, file, sessions, message, chat_history,
                   aliased, turn_H, turns>>

\* result.stream_events() raises while the loop waits for the next chunk
StreamRaises ==
    /\ pc = "stream"
    /\ ExceptBlock(response_message, ui)
    /\ UNCHANGED bootVars
    /\ UNCHANGED toolVars
    /\ UNCHANGED <<session, user_session, file, sessions, message, chat_history,
                   aliased, first_response, turn_H, emitted, transitions,
                   turns, events>>

\* the stream ends: append the assistant entry, store the history, update
Finalize(raises) ==
    /\ pc = "stream"
    /\ LET entry == Entry("assistant", response_message.content)
       IN  /\ chat_history' = Append(chat_history, entry)
           /\ user_session' = [user_session EXCEPT !.chat_history = Append(chat_history, entry)]
           /\ aliased' = TRUE
    /\ IF raises
         THEN ExceptBlock(response_message, ui)
         ELSE /\ ui' = [ui EXCEPT !.response = <<response_message.content>>]
              /\ outcome' = "ok"
              /\ pc' = "idle"
              /\ UNCHANGED response_message
    /\ UNCHANGED bootVars
    /\ UNCHANGED toolVars
    /\ UNCHANGED <<session, file, sessions, message, first_response, turn_H,
                   emitted, transitions, turns, events>>

\* @cl.on_chat_end
End ==
    /\ phase = "running"
    /\ session = "active"
    /\ pc = "idle"
    /\ file' = open_w(file) \o json_dump(StoredOrEmpty(user_session))
    /\ session' = "ended"
    /\ UNCHANGED bootVars
    /\ UNCHANGED turnVars
    /\ UNCHANGED toolVars
    /\ UNCHANGED <<user_session, sessions>>

(***************************************************************************)
(* Tools                                                                   *)
(***************************************************************************)
Digits == <<"0", "1", "2", "3", "4", "5", "6", "7", "8", "9">>

\* str(n) for n >= 0
RECURSIVE NatToStr(_)
NatToStr(n) ==
    IF n < 10 THEN Digits[n + 1]
    ELSE NatToStr(n \div 10) \o Digits[(n % 10) + 1]

\* formatting of an int inside an f-string
IntToStr(n) == IF n < 0 THEN "-" \o NatToStr(0 - n) ELSE NatToStr(n)

\* variant: the directory is keyed from 0
students_from_zero ==
    [i \in 0..3 |->
        CASE i = 0 -> [name |-> "John Doe", age |-> 20, major |-> "Computer Science"]
          [] i = 1 -> [name |-> "Jane Smith", age |-> 22, major |-> "Mathematics"]
          [] i = 2 -> [name |-> "Alice Johnson", age |-> 21, major |-> "Physics"]
          [] i = 3 -> [name |-> "Bob Brown", age |-> 23, major |-> "Chemistry"]]

\* the dict students, built anew by every call
students ==
    [i \in 1..4 |->
        CASE i = 1 -> [name |-> "John Doe", age |-> 20, major |-> "Computer Science"]
          [] i = 2 -> [name |-> "Jane Smith", age |-> 22, major |-> "Mathematics"]
          [] i = 3 -> [name |-> "Alice Johnson", age |-> 21, major |-> "Physics"]
          [] i = 4 -> [name |-> "Bob Brown", age |-> 23, major |-> "Chemistry"]]

get_student_info(student_id) ==
    IF student_id \in DOMAIN students
      THEN LET student_info == students[student_id]
           IN  "Student ID: " \o IntToStr(student_id)
               \o ", Name: " \o student_info.name
               \o ", Age: " \o IntToStr(student_info.age)
               \o ", Major: " \o student_info.major \o "."
      ELSE "No student found with ID " \o IntToStr(student_id) \o "."

StudentIds == (0 - 1)..MaxStudentId

\* one invocation of student_info_tool
StudentInfoTool(id) ==
    /\ phase = "running"
    /\ student_calls' = student_calls \cup {[id |-> id, result |-> get_student_info(id)]}
    /\ UNCHANGED bootVars
    /\ UNCHANGED turnVars
    /\ UNCHANGED <<session, user_session, file, sessions, weather_call, requests_made>>

\* what requests.get can produce: an exception, or a response with a status
\* code and a body
Payload(temp) ==
    [location |-> [name |-> "London", region |-> "City of London",
                   country |-> "UK", localtime |-> "2023-10-15 14:30"],
     current |-> [temp_c |-> temp, condition |-> [text |-> "Sunny"],
                  feelslike_c |-> temp - 1, wind_kph |-> 15, wind_dir |-> "SW",
                  humidity |-> 65, uv |-> 4]]

NoCurrent(temp) == [location |-> Payload(temp).location]

NoUv(temp) ==
    [location |-> Payload(temp).location,
     current |-> [temp_c |-> temp, condition |-> [text |-> "Sunny"],
                  feelslike_c |-> temp - 1, wind_kph |-> 15, wind_dir |-> "SW",
                  humidity |-> 65]]

Body(valid, data) == [valid_json |-> valid, data |-> <<data>>]
BadBody == [valid_json |-> FALSE, data |-> <<>>]

Response(kind, code, body) == [kind |-> kind, status_code |-> code, body |-> body]

GetOutcomes ==
    {Response("ConnectionError", 0, BadBody)}
    \cup {Response("response", c, BadBody) : c \in {401, 404, 500}}
    \cup {Response("response", 200, b) :
            b \in {BadBody, Body(TRUE, Payload(18)), Body(TRUE, Payload(0 - 3)),
                   Body(TRUE, NoCurrent(18)), Body(TRUE, NoUv(18))}}

Returned(v) == [raised |-> FALSE, value |-> v, exception |-> ""]
Raised(e) == [raised |-> TRUE, value |-> "", exception |-> e]

CurrentKeys == {"temp_c", "condition", "feelslike_c", "wind_kph", "wind_dir",
                "humidity", "uv"}

\* every subscript of the f-string finds its key
HasAllKeys(data) ==
    /\ "location" \in DOMAIN data
    /\ {"name", "region", "country", "localtime"} \subseteq DOMAIN data.location
    /\ "current" \in DOMAIN data
    /\ CurrentKeys \subseteq DOMAIN data.current
    /\ "text" \in DOMAIN data.current.condition

\* the body of get_current_weather, given what requests.get produced
get_current_weather(location, got) ==
    IF got.kind = "ConnectionError" THEN Raised("ConnectionError")
    ELSE IF got.status_code # 200
      THEN Returned("Error fetching weather data for " \o location
                    \o ". Please try again later.")
    ELSE IF ~got.body.valid_json THEN Raised("JSONDecodeError")
    ELSE LET data == got.body.data[1]
         IN  IF ~HasAllKeys(data) THEN Raised("KeyError")
             ELSE Returned(
                "Current weather in " \o data.location.name \o ", "
                \o data.location.region \o ", " \o data.location.country
                \o " as of " \o data.location.localtime \o " is "
                \o IntToStr(data.current.temp_c) \o "°C ("
                \o data.current.condition.text \o "), feels like "
                \o IntToStr(data.current.feelslike_c) \o "°C, wind "
                \o IntToStr(data.current.wind_kph) \o " km/h "
                \o data.current.wind_dir \o ", humidity "
                \o IntToStr(data.current.humidity) \o "% and UV index is "
                \o IntToStr(data.current.uv) \o ".")

\* one invocation of current_weather_tool: one requests.get, then the body
WeatherTool(location, got) ==
    /\ phase = "running"
    /\ requests_made < MaxRequests
    /\ requests_made' = requests_made + 1
    /\ weather_call' = <<[location |-> location, got |-> got, requests |-> 1,
                          result |-> get_current_weather(location, got)]>>
    /\ UNCHANGED bootVars
    /\ UNCHANGED turnVars
    /\ UNCHANGED <<session, user_session, file, sessions, student_calls>>

(***************************************************************************)
(* Specification of the process and its sessions                           *)
(***************************************************************************)
EnvValues == {None, "", "x"}

OldFiles == {<<>>, <<Str("stale")>>, json_dump(<<Entry("user", "old")>>)}

Init ==
    /\ env \in [EnvNames -> EnvValues]
    /\ phase = "boot"
    /\ exit_status = -1
    /\ diagnostic = ""
    /\ secrets = <<>>
    /\ session = "none"
    /\ user_session = [agent |-> None, chat_history |-> <<>>]
    /\ file \in OldFiles
    /\ pc = "idle"
    /\ message = ""
    /\ chat_history = <<>>
    /\ aliased = FALSE
    /\ response_message = [bound |-> FALSE, content |-> "", sent |-> FALSE]
    /\ first_response = TRUE
    /\ ui = [thinking |-> FALSE, response |-> <<>>]
    /\ turn_H = <<>>
    /\ emitted = <<>>
    /\ transitions = 0
    /\ outcome = "none"
    /\ turns = 0
    /\ sessions = 0
    /\ events = 0
    /\ student_calls = {}
    /\ weather_call = <<>>
    /\ requests_made = 0

Next ==
    \/ LoadSecrets
    \/ Start
    \/ \E m \in UserMessages : OnMessage(m)
    \/ \E r \in BOOLEAN : RunStreamed(r)
    \/ OtherEvent
    \/ \E d \in Deltas, f \in {"none", "remove", "send", "stream_token"} : TextDelta(d, f)
    \/ StreamRaises
    \/ \E r \in BOOLEAN : Finalize(r)
    \/ End

Spec == Init /\ [][Next]_vars

\* the state of a process whose configuration is complete, before any session
InitRunning ==
    /\ env = [n \in EnvNames |-> "x"]
    /\ phase = "running"
    /\ exit_status = -1
    /\ diagnostic = ""
    /\ secrets = <<Secrets([n \in EnvNames |-> "x"])>>
    /\ session = "none"
    /\ user_session = [agent |-> None, chat_history |-> <<>>]
    /\ file = <<>>
    /\ pc = "idle"
    /\ message = ""
    /\ chat_history = <<>>
    /\ aliased = FALSE
    /\ response_message = [bound |-> FALSE, content |-> "", sent |-> FALSE]
    /\ first_response = TRUE
    /\ ui = [thinking |-> FALSE, response |-> <<>>]
    /\ turn_H = <<>>
    /\ emitted = <<>>
    /\ transitions = 0
    /\ outcome = "none"
    /\ turns = 0
    /\ sessions = 0
    /\ events = 0
    /\ student_calls = {}
    /\ weather_call = <<>>
    /\ requests_made = 0

NextStudent == \E id \in StudentIds : StudentInfoTool(id)

SpecStudent == InitRunning /\ [][NextStudent]_vars

NextWeather == \E l \in Locations, g \in GetOutcomes : WeatherTool(l, g)

SpecWeather == InitRunning /\ [][NextWeather]_vars

(***************************************************************************)
(* Properties                                                              *)
(***************************************************************************)
TurnOver == pc = "idle" /\ outcome \in {"ok", "caught", "escaped"}
TurnFailed == pc = "idle" /\ outcome \in {"caught", "escaped"}

\* the texts on screen for the turn
Visible(u) ==
    (IF u.thinking THEN {ThinkingText} ELSE {})
    \cup {u.response[i] : i \in DOMAIN u.response}

\* the deltas joined in emission order
RECURSIVE Joined(_)
Joined(ds) == IF ds = <<>> THEN "" ELSE Head(ds) \o Joined(Tail(ds))

\* C1: after a turn that completes without an exception the stored history
\* is the history the turn began with, then the user entry for the message,
\* then the assistant entry whose content is the turn's text deltas joined
\* in emission order, and nothing else.
C1_SuccessfulTurnAppends ==
    (pc = "idle" /\ outcome = "ok") =>
        user_session.chat_history =
            turn_H \o <<Entry("user", message),
                        Entry("assistant", Joined(emitted))>>

C1_Witness ==
    /\ pc = "idle" /\ outcome = "ok"
    /\ Len(turn_H) >= 2
    /\ emitted = <<"a", "b">>
    /\ Len(user_session.chat_history) = Len(turn_H) + 2

\* C2: after a turn in which an exception was raised, the generic error
\* message is the only output of the turn on screen: no "Thinking..."
\* placeholder and no partial text.
C2_OnlyErrorVisible ==
    TurnFailed => Visible(ui) = {ErrorText}

\* C3: by the end of every turn the transition "remove the placeholder and
\* send the live message" has happened exactly once.
C3_TransitionExactlyOnce ==
    /\ transitions <= 1
    /\ TurnOver => transitions = 1

\* a file that holds one JSON array of {role, content} objects
IsHistoryArray(f) ==
    /\ Len(f) >= 2
    /\ f[1] = Punct("[")
    /\ f[Len(f)] = Punct("]")
    /\ LET n == Len(f) - 2
       IN  \/ n = 0
           \/ /\ (n + 1) % 10 = 0
              /\ \A k \in 0..(((n + 1) \div 10) - 1) :
                    LET b == 1 + 10 * k
                    IN  /\ f[b + 1] = Punct("{")
                        /\ f[b + 2] = Str("role")
                        /\ f[b + 3] = Punct(":")
                        /\ f[b + 4].t = "str"
                        /\ f[b + 5] = Punct(",")
                        /\ f[b + 6] = Str("content")
                        /\ f[b + 7] = Punct(":")
                        /\ f[b + 8].t = "str"
                        /\ f[b + 9] = Punct("}")
                        /\ f[b + 10] = (IF b + 10 = Len(f) THEN Punct("]") ELSE Punct(","))

\* the records such a file holds, in order
Parsed(f) ==
    [k \in 1..((Len(f) - 1) \div 10) |->
        [role |-> f[10 * (k - 1) + 5].v, content |-> f[10 * (k - 1) + 9].v]]

\* C4: once on_end has run, chat_history.json holds exactly the JSON array
\* of the records of the session's stored history, in order, whatever the
\* file held before.
C4_FileHoldsStoredHistory ==
    session = "ended" =>
        /\ IsHistoryArray(file)
        /\ Parsed(file) = user_session.chat_history

C4_Witness ==
    /\ session = "ended"
    /\ sessions = 2
    /\ Len(user_session.chat_history) >= 3
    /\ outcome \in {"caught", "escaped"}

\* C5: every invocation of the weather tool makes one request and returns a
\* string instead of raising; for a status other than 200 the string is the
\* fixed error sentence with the location.
C5_WeatherNeverRaises ==
    \A c \in {weather_call[i] : i \in DOMAIN weather_call} :
        /\ c.requests = 1
        /\ ~c.result.raised
        /\ (c.got.kind = "response" /\ c.got.status_code # 200) =>
              c.result.value = "Error fetching weather data for " \o c.location
                               \o ". Please try again later."

Decimal(n) ==
    CASE n = 0 - 1 -> "-1" [] n = 0 -> "0" [] n = 1 -> "1" [] n = 2 -> "2"
      [] n = 3 -> "3" [] n = 4 -> "4" [] n = 5 -> "5" [] n = 6 -> "6"
      [] n = 7 -> "7" [] n = 8 -> "8" [] n = 9 -> "9" [] n = 10 -> "10"

DirectorySentence(n) ==
    CASE n = 1 -> "Student ID: 1, Name: John Doe, Age: 20, Major: Computer Science."
      [] n = 2 -> "Student ID: 2, Name: Jane Smith, Age: 22, Major: Mathematics."
      [] n = 3 -> "Student ID: 3, Name: Alice Johnson, Age: 21, Major: Physics."
      [] n = 4 -> "Student ID: 4, Name: Bob Brown, Age: 23, Major: Chemistry."
      [] OTHER -> "No student found with ID " \o Decimal(n) \o "."

\* C6: every call of the student tool returns the sentence of the fixed
\* record for ids 1 to 4 and the "No student found" sentence with the id
\* otherwise, and calls with the same id return the same string.
C6_StudentToolTotal ==
    /\ \A c \in student_calls : c.result = DirectorySentence(c.id)
    /\ \A c, d \in student_calls : c.id = d.id => c.result = d.result

C6_Witness ==
    /\ \A i \in {0, 1, 4, 5} : \E c \in student_calls : c.id = i
    /\ \E c \in student_calls : c.id = 0 - 1

RequiredOrder == <<"GEMINI_API_KEY", "GEMINI_API_URL", "GEMINI_API_MODEL",
                   "WEATHER_API_URL", "WEATHER_API_KEY">>

Missing(i) == env[RequiredOrder[i]] \in {None, ""}

\* C7: when a required configuration value is absent or empty, the process
\* has, once startup is over, printed the diagnostic for the first missing
\* one and exited with a non-zero status, the Secrets object was not built
\* and no session handler has run.
C7_IncompleteConfigIsFatal ==
    (phase # "boot" /\ \E i \in 1..5 : Missing(i)) =>
        /\ phase = "exited"
        /\ exit_status > 0
        /\ \E i \in 1..5 : /\ Missing(i)
                           /\ \A j \in 1..(i - 1) : ~Missing(j)
                           /\ diagnostic = RequiredOrder[i]
        /\ secrets = <<>>
        /\ session = "none" /\ sessions = 0 /\ turns = 0 /\ pc = "idle"
        /\ outcome = "none"

C7_Witness ==
    /\ phase = "exited"
    /\ ~Missing(1) /\ ~Missing(2) /\ ~Missing(3)
    /\ Missing(4) /\ Missing(5)

\* C8: no exception escapes the on_message handler.
C8_NothingEscapes ==
    outcome # "escaped"

\* the roles alternate, beginning with the user
Alternates(h) ==
    \A i \in 1..Len(h) : h[i].role = (IF i % 2 = 1 THEN "user" ELSE "assistant")

\* C9: the stored history always alternates between user and assistant
\* entries, starting with a user entry.
C9_HistoryAlternates ==
    Alternates(user_session.chat_history)

\* C10: after a turn in which an exception was raised the stored history is
\* the history the turn began with followed by the user entry alone,
\* whatever that history was.
C10_FailedTurnKeepsUserEntry ==
    TurnFailed =>
        user_session.chat_history = turn_H \o <<Entry("user", message)>>

====
